---------------------------- MODULE Spec2Model ----------------------------
(***************************************************************************)
(* SimpleAgent (src/demo.ts): the facade's bootstrap, create(), and its    *)
(* message-send / stream-relay operation, sendMessage().                   *)
(*                                                                         *)
(* Optional values (string | undefined, T | none) are sequences of length  *)
(* at most one: <<>> is "absent", <<v>> is "present with value v".         *)
(* Strings are TLA+ strings; \o is JavaScript's + on strings.              *)
(***************************************************************************)
EXTENDS Naturals, Sequences, FiniteSets, TLC

(* ------------------------------ bounds --------------------------------- *)

\* what the calls made on the facade may cost together: a sendMessage call
\* costs two, each event of its stream costs one more
MaxWork == 5
MaxCalls == MaxWork \div 2
\* the last value Date.now() takes
MaxTime == 1

CallIds == 1..MaxCalls

(* ------------------------- the values in play -------------------------- *)

\* what uuidv4() gives the one facade built here
SessionIds == {"u1"}
\* user messages
Messages == {"ping"}
\* payloads of content events
Chunks == {"a", "b"}

None == <<>>
Some(v) == <<v>>

\* GeminiEventType members the switch names, and one it does not
Content == "content"
Finished == "finished"
ErrorEvent == "error"
ToolCallRequest == "tool_call_request"
Thought == "thought"

\* A ServerGeminiStreamEvent: value is the content text or the tool's name,
\* error is event.value.error?.message (absent, or a string that may be empty).
Event(t, v, e) == [type |-> t, value |-> v, error |-> e]

Events ==
    {Event(Content, ch, None) : ch \in Chunks}
    \cup {Event(Finished, "", None)}
    \cup {Event(ErrorEvent, "", m) : m \in {None, Some(""), Some("X")}}
    \cup {Event(ToolCallRequest, "read_file", None)}
    \cup {Event(Thought, "", None)}

\* A thrown JavaScript value: isError is "instanceof Error".
Thrown(i, n, m) == [isError |-> i, name |-> n, message |-> m]

\* new Error(message)
NewError(m) == Thrown(TRUE, "Error", m)

\* what the stream's iterator may reject with
Rejections ==
    { Thrown(TRUE, "AbortError", "This operation was aborted"),
      Thrown(TRUE, "AbortError", "The user aborted a request."),
      Thrown(TRUE, "TypeError", "fetch failed"),
      Thrown(FALSE, "AbortError", "aborted") }

SeqsUpTo(S, n) == UNION {[1..k -> S] : k \in 0..n}

\* A stream: the events it yields in order, then how its iterator ends:
\* ending = None, it completes; ending = Some(e), it rejects with e.
Streams(n) ==
    {[events |-> es, ending |-> en] :
        es \in SeqsUpTo(Events, n), en \in {None} \cup {Some(r) : r \in Rejections}}

(* ------------------------------ state ---------------------------------- *)

VARIABLES
    now,        \* Date.now()
    create,     \* the one create() call: where it is and what it has built
    calls,      \* the sendMessage calls, by order of invocation
    nextRef     \* the next fresh object identity (new AbortController())

vars == <<now, create, calls, nextRef>>

IdleCall ==
    [pc |-> "idle", message |-> "", onStream |-> FALSE, promptId |-> "",
     signal |-> 0, stream |-> [events |-> <<>>, ending |-> None], pos |-> 0,
     fullResponse |-> "", chunks |-> <<>>, result |-> None, error |-> None]

Init ==
    /\ now = 0
    /\ create = [pc |-> "idle", sessionId |-> "", configInitialized |-> FALSE,
                 clientInitialized |-> FALSE, agent |-> FALSE, error |-> None]
    /\ calls = [c \in CallIds |-> IdleCall]
    /\ nextRef = 1

(* ------------------------------ create --------------------------------- *)

\* line 55 and the constructor, lines 29-32: the facade exists
Construct(cr) == [cr EXCEPT !.pc = "resolved", !.agent = TRUE]

\* an await that rejects leaves create() through its promise
Reject(cr, m) == [cr EXCEPT !.pc = "rejected", !.error = Some(NewError(m))]

\* lines 48-55, once config.initialize() has settled: ok says whether it
\* succeeded, ready is what client.isInitialized() answers
AfterConfigInitialize(cr, ok, ready) ==
    IF ~ok
    THEN Reject(cr, "config.initialize failed")
    ELSE LET cr1 == [cr EXCEPT !.configInitialized = TRUE,
                               !.clientInitialized = ready]
         IN IF ~cr1.clientInitialized
            THEN [cr1 EXCEPT !.pc = "clientInit"]
            ELSE Construct(cr1)

\* a create() that goes on to the constructor whatever client.initialize() did
AfterClientInitializeUnchecked(cr, ok) ==
    Construct([cr EXCEPT !.clientInitialized = ok])

\* lines 52-55, once client.initialize() has settled
AfterClientInitialize(cr, ok) ==
    IF ~ok
    THEN Reject(cr, "client.initialize failed")
    ELSE Construct([cr EXCEPT !.clientInitialized = TRUE])

\* create(workspaceRoot), lines 37-48: build the Config, call initialize()
CreateStart ==
    /\ create.pc = "idle"
    /\ \E sid \in SessionIds :
          create' = [create EXCEPT !.pc = "configInit", !.sessionId = sid]
    /\ UNCHANGED <<now, calls, nextRef>>

\* config.initialize() settles
ConfigInitializeSettles ==
    /\ create.pc = "configInit"
    /\ \E ok \in BOOLEAN, ready \in BOOLEAN :
          create' = AfterConfigInitialize(create, ok, ready)
    /\ UNCHANGED <<now, calls, nextRef>>

\* client.initialize() settles
ClientInitializeSettles ==
    /\ create.pc = "clientInit"
    /\ \E ok \in BOOLEAN :
          create' = AfterClientInitialize(create, ok)
    /\ UNCHANGED <<now, calls, nextRef>>

(* ---------------------------- sendMessage ------------------------------ *)

Digit(d) == <<"0", "1", "2", "3", "4", "5", "6", "7", "8", "9">>[d + 1]

\* the decimal numeral a template literal gives a number
RECURSIVE DecStr(_)
DecStr(n) == IF n < 10 THEN Digit(n) ELSE DecStr(n \div 10) \o Digit(n % 10)

\* line 68
PromptId(sid, t) == sid \o "-" \o DecStr(t)

\* one controller kept and handed to every call
ReuseRef(n) == n

\* line 69: new AbortController() is an object no earlier call holds
AllocRef(n) == n + 1

\* the loop's local state and what the switch arm decided
Step(ctl, fr, ch, th) ==
    [ctl |-> ctl, fullResponse |-> fr, chunks |-> ch, thrown |-> th]

\* a content arm that puts the new chunk in front of the text
OnContentPrepend(fr, ch, cb, ev) ==
    Step("continue", ev.value \o fr,
         IF cb THEN Append(ch, ev.value) ELSE ch, None)

\* lines 81-86
OnContent(fr, ch, cb, ev) ==
    Step("continue", fr \o ev.value,
         IF cb THEN Append(ch, ev.value) ELSE ch, None)

\* a finished arm that breaks out of the switch and not out of the loop
OnFinishedBreaks(fr, ch, cb, ev) == Step("continue", fr, ch, None)

\* lines 88-89
OnFinished(fr, ch, cb, ev) == Step("return", fr, ch, None)

\* an error arm that drops the event's message
OnErrorDefaultOnly(fr, ch, cb, ev) ==
    Step("throw", fr, ch, Some(NewError("Unknown error occurred")))

\* an error arm that hands back what has been accumulated
OnErrorReturnsPartial(fr, ch, cb, ev) == Step("return", fr, ch, None)

\* lines 91-94: || takes the default for an absent and for an empty message
OnError(fr, ch, cb, ev) ==
    Step("throw", fr, ch,
         Some(NewError(IF ev.error # None /\ ev.error[1] # ""
                       THEN ev.error[1]
                       ELSE "Unknown error occurred")))

\* a tool-call arm that ends the call
OnToolCallRequestStops(fr, ch, cb, ev) == Step("return", fr, ch, None)

\* lines 96-99
OnToolCallRequest(fr, ch, cb, ev) == Step("continue", fr, ch, None)

\* lines 101-103
OnDefault(fr, ch, cb, ev) == Step("continue", fr, ch, None)

\* lines 80-104, the switch
HandleEvent(fr, ch, cb, ev) ==
    CASE ev.type = Content -> OnContent(fr, ch, cb, ev)
      [] ev.type = Finished -> OnFinished(fr, ch, cb, ev)
      [] ev.type = ErrorEvent -> OnError(fr, ch, cb, ev)
      [] ev.type = ToolCallRequest -> OnToolCallRequest(fr, ch, cb, ev)
      [] OTHER -> OnDefault(fr, ch, cb, ev)

\* a catch block that rethrows whatever it caught
CatchRethrow(e) == e

\* lines 108-113: what the catch block throws for a caught value
Catch(e) ==
    IF e.isError /\ e.name = "AbortError"
    THEN NewError("Request cancelled")
    ELSE e

\* the call's promise resolves with v / rejects with e
Return(cl, v) == [cl EXCEPT !.pc = "returned", !.result = Some(v)]
Throw(cl, e) == [cl EXCEPT !.pc = "failed", !.error = Some(Catch(e))]

\* an end of stream that insists on a finished event
OnStreamEndStrict(cl) ==
    Throw(cl, IF cl.stream.ending = None
              THEN NewError("Stream ended without a finished event")
              ELSE cl.stream.ending[1])

\* the iterator is exhausted: it completes, and line 107 returns the text,
\* or it rejects, and the catch block of lines 108-113 has the value
OnStreamEnd(cl) ==
    IF cl.stream.ending = None
    THEN Return(cl, cl.fullResponse)
    ELSE Throw(cl, cl.stream.ending[1])

\* the calls made so far and the events of their streams
RECURSIVE Work(_)
Work(n) ==
    IF n = 0 THEN 0
    ELSE (IF calls[n].pc = "idle" THEN 0
          ELSE 2 + Len(calls[n].stream.events))
         + Work(n - 1)

\* sendMessage(message, onStream?), lines 64-77, up to the first await of
\* the loop; the client answers with the stream st
SendMessage(c) ==
    /\ create.agent
    /\ calls[c].pc = "idle"
    /\ c > 1 => calls[c - 1].pc # "idle"
    /\ Work(MaxCalls) + 2 <= MaxWork
    /\ \E msg \in Messages, cb \in BOOLEAN,
          st \in Streams(MaxWork - Work(MaxCalls) - 2) :
          calls' = [calls EXCEPT ![c] =
                      [@ EXCEPT !.pc = "streaming", !.message = msg,
                                !.onStream = cb,
                                !.promptId = PromptId(create.sessionId, now),
                                !.signal = nextRef, !.stream = st]]
    /\ nextRef' = AllocRef(nextRef)
    /\ UNCHANGED <<now, create>>

\* one turn of the for-await loop, lines 79-105: the next event arrives
NextEvent(c) ==
    /\ calls[c].pc = "streaming"
    /\ calls[c].pos < Len(calls[c].stream.events)
    /\ LET cl == calls[c]
           ev == cl.stream.events[cl.pos + 1]
           r == HandleEvent(cl.fullResponse, cl.chunks, cl.onStream, ev)
           cl1 == [cl EXCEPT !.pos = @ + 1, !.fullResponse = r.fullResponse,
                             !.chunks = r.chunks]
       IN calls' = [calls EXCEPT ![c] =
                      CASE r.ctl = "return" -> Return(cl1, cl1.fullResponse)
                        [] r.ctl = "throw" -> Throw(cl1, r.thrown[1])
                        [] OTHER -> cl1]
    /\ UNCHANGED <<now, create, nextRef>>

\* the for-await loop asks for an event and the stream has no more
StreamEnds(c) ==
    /\ calls[c].pc = "streaming"
    /\ calls[c].pos = Len(calls[c].stream.events)
    /\ calls' = [calls EXCEPT ![c] = OnStreamEnd(@)]
    /\ UNCHANGED <<now, create, nextRef>>

\* a millisecond passes
Tick ==
    /\ now < MaxTime
    /\ now' = now + 1
    /\ UNCHANGED <<create, calls, nextRef>>

Next ==
    \/ CreateStart
    \/ ConfigInitializeSettles
    \/ ClientInitializeSettles
    \/ \E c \in CallIds : SendMessage(c)
    \/ \E c \in CallIds : NextEvent(c)
    \/ \E c \in CallIds : StreamEnds(c)
    \/ Tick

Spec == Init /\ [][Next]_vars

(* ------------------- sendMessage as a function ------------------------- *)

\* what a caller of sendMessage observes
Outcome(pc, result, error, chunks) ==
    [pc |-> pc, result |-> result, error |-> error, chunks |-> chunks]

OutcomeOf(cl) == Outcome(cl.pc, cl.result, cl.error, cl.chunks)

\* lines 70-113 run to the end on the stream st, from its i-th event on
RECURSIVE RunFrom(_, _, _, _, _)
RunFrom(st, i, fr, ch, cb) ==
    IF i > Len(st.events)
    THEN IF st.ending = None
         THEN Outcome("returned", Some(fr), None, ch)
         ELSE Outcome("failed", None, Some(Catch(st.ending[1])), ch)
    ELSE LET r == HandleEvent(fr, ch, cb, st.events[i])
         IN CASE r.ctl = "return" ->
                   Outcome("returned", Some(r.fullResponse), None, r.chunks)
              [] r.ctl = "throw" ->
                   Outcome("failed", None, Some(Catch(r.thrown[1])), r.chunks)
              [] OTHER -> RunFrom(st, i + 1, r.fullResponse, r.chunks, cb)

RunStream(st, cb) == RunFrom(st, 1, "", <<>>, cb)

(* ------------------------- vocabulary of the claims --------------------- *)

Started(c) == calls[c].pc # "idle"
Ended(c) == calls[c].pc \in {"returned", "failed"}

IsContent(ev) == ev.type = Content
IsTerminal(ev) == ev.type \in {Finished, ErrorEvent}
IsIgnored(ev) == ev.type \notin {Content, Finished, ErrorEvent}

\* the payloads of the content events of es, in order
ContentValues(es) ==
    LET cs == SelectSeq(es, IsContent) IN [i \in 1..Len(cs) |-> cs[i].value]

RECURSIVE Concat(_)
Concat(ss) == IF ss = <<>> THEN "" ELSE Head(ss) \o Concat(Tail(ss))

\* es is c1..cn followed by finished, and nothing else
ContentThenFinished(es) ==
    /\ Len(es) >= 1
    /\ es[Len(es)].type = Finished
    /\ \A i \in 1..(Len(es) - 1) : IsContent(es[i])

\* the last event the call consumed, when it ended the call
EndedByEvent(c) ==
    /\ Ended(c)
    /\ calls[c].pos >= 1
    /\ IsTerminal(calls[c].stream.events[calls[c].pos])

\* the call ended because its iterator had nothing more or rejected
EndedByStreamEnd(c) == Ended(c) /\ ~EndedByEvent(c)

IsAbortError(e) == e.isError /\ e.name = "AbortError"

(* ------------------------------ claims ---------------------------------- *)

\* C1: for a stream of content chunks c1..cn (n >= 0) followed by finished,
\* sendMessage returns c1+...+cn and fails with nothing, and onStream, when
\* given, has been called exactly with c1, ..., cn in that order; while the
\* call runs the callback has seen exactly the chunks consumed so far.
C1_ConcatAndOrder ==
    \A c \in CallIds :
        LET cl == calls[c]
            vs == ContentValues(cl.stream.events)
        IN (Started(c) /\ ContentThenFinished(cl.stream.events)) =>
              /\ cl.onStream => cl.chunks = SubSeq(vs, 1, IF cl.pos < Len(vs) THEN cl.pos ELSE Len(vs))
              /\ ~cl.onStream => cl.chunks = <<>>
              /\ Ended(c) =>
                    /\ cl.pc = "returned"
                    /\ cl.result = Some(Concat(vs))
                    /\ cl.error = None
                    /\ cl.onStream => cl.chunks = vs

C1_Witness ==
    \E c \in CallIds :
        /\ calls[c].pc = "returned"
        /\ calls[c].onStream
        /\ ContentThenFinished(calls[c].stream.events)
        /\ calls[c].chunks = <<"a", "b">>
        /\ calls[c].result = Some("ab")

\* C2 as stated: a call that consumes an error event fails, returns nothing,
\* and its error's message is the event's message whenever the event has
\* one, the default "Unknown error occurred" only when it has none.
C2_AsStated ==
    \A c \in CallIds :
        EndedByEvent(c) /\ calls[c].stream.events[calls[c].pos].type = ErrorEvent =>
            LET ev == calls[c].stream.events[calls[c].pos]
            IN /\ calls[c].pc = "failed"
               /\ calls[c].result = None
               /\ calls[c].error =
                    Some(NewError(IF ev.error # None THEN ev.error[1]
                                  ELSE "Unknown error occurred"))

\* C2, amended: a call that consumes an error event fails and returns
\* nothing; its error's message is the event's message when that is a
\* non-empty string, and "Unknown error occurred" when the event has no
\* message or an empty one.
C2_ErrorMessage ==
    \A c \in CallIds :
        EndedByEvent(c) /\ calls[c].stream.events[calls[c].pos].type = ErrorEvent =>
            LET ev == calls[c].stream.events[calls[c].pos]
                absent == ev.error = None \/ ev.error = Some("")
            IN /\ calls[c].pc = "failed"
               /\ calls[c].result = None
               /\ calls[c].error =
                    Some(NewError(IF absent THEN "Unknown error occurred"
                                  ELSE ev.error[1]))

C2_Witness ==
    \E c \in CallIds :
        /\ calls[c].pc = "failed"
        /\ calls[c].pos = 2
        /\ calls[c].stream.events[1].type = Content
        /\ calls[c].stream.events[2] = Event(ErrorEvent, "", Some("X"))
        /\ calls[c].error = Some(NewError("X"))

\* C3: when a call is cancelled, that is its stream rejects with an
\* AbortError before a finished (or error) event was consumed, the call
\* fails with a plain Error whose message is "Request cancelled", whatever
\* message the AbortError had; the AbortError itself is not what the caller
\* gets, and nothing is returned.
C3_CancelNormalised ==
    \A c \in CallIds :
        (/\ EndedByStreamEnd(c)
         /\ calls[c].stream.ending # None
         /\ IsAbortError(calls[c].stream.ending[1])) =>
            /\ calls[c].pc = "failed"
            /\ calls[c].result = None
            /\ calls[c].error = Some(Thrown(TRUE, "Error", "Request cancelled"))
            /\ calls[c].error # calls[c].stream.ending

C3_Witness ==
    \E c \in CallIds :
        /\ EndedByStreamEnd(c)
        /\ calls[c].stream.ending =
              Some(Thrown(TRUE, "AbortError", "The user aborted a request."))
        /\ calls[c].fullResponse = "a"
        /\ calls[c].error = Some(NewError("Request cancelled"))

\* C4: any two sendMessage calls made on the facade pass distinct request
\* identifiers to sendMessageStream.
C4_DistinctPromptIds ==
    \A c, d \in CallIds :
        (c # d /\ Started(c) /\ Started(d)) =>
            calls[c].promptId # calls[d].promptId

\* C5: a call that has not ended has neither a result nor an error; a call
\* that has ended either returned its accumulated text and has no error, or
\* failed with an error and returned nothing, the error not being the
\* accumulated text; and a call ended by an error event or by a rejection of
\* its stream is a failed one.
C5_AllOrNothing ==
    \A c \in CallIds :
        LET cl == calls[c]
        IN /\ ~Ended(c) => cl.result = None /\ cl.error = None
           /\ Ended(c) =>
                \/ /\ cl.pc = "returned"
                   /\ cl.result = Some(cl.fullResponse)
                   /\ cl.error = None
                \/ /\ cl.pc = "failed"
                   /\ cl.result = None
                   /\ cl.error # None
                   /\ cl.fullResponse # "" => cl.error[1].message # cl.fullResponse
           /\ (EndedByEvent(c) /\ cl.stream.events[cl.pos].type = ErrorEvent) =>
                cl.pc = "failed"
           /\ (EndedByStreamEnd(c) /\ cl.stream.ending # None) => cl.pc = "failed"

C5_Witness ==
    \E c \in CallIds :
        /\ calls[c].pc = "failed"
        /\ calls[c].fullResponse = "ab"
        /\ calls[c].chunks = <<"a", "b">>
        /\ calls[c].result = None
        /\ calls[c].stream.events[calls[c].pos].type = ErrorEvent

\* C6: when the stream completes without ever having produced a finished or
\* an error event, the call returns the concatenation of the chunks it
\* received and raises no error.
C6_FallThrough ==
    \A c \in CallIds :
        LET cl == calls[c]
        IN (/\ Ended(c)
            /\ cl.stream.ending = None
            /\ \A i \in 1..Len(cl.stream.events) : ~IsTerminal(cl.stream.events[i])) =>
                /\ cl.pc = "returned"
                /\ cl.result = Some(Concat(ContentValues(cl.stream.events)))
                /\ cl.error = None
                /\ cl.pos = Len(cl.stream.events)

C6_Witness ==
    \E c \in CallIds :
        /\ calls[c].pc = "returned"
        /\ calls[c].stream.ending = None
        /\ calls[c].pos = 2
        /\ Len(calls[c].stream.events) = 2
        /\ \A i \in 1..2 : IsContent(calls[c].stream.events[i])
        /\ calls[c].result = Some("ba")

\* C7: tool-call-request events and events of an unrecognized kind change
\* nothing: what an ended call returned or failed with, and the calls its
\* onStream got, are what sendMessage gives on the stream with all such
\* events removed; and while such an event is the one just consumed the call
\* is still running.
C7_IgnoredEvents ==
    \A c \in CallIds :
        LET cl == calls[c]
            kept == [events |-> SelectSeq(cl.stream.events, LAMBDA e : ~IsIgnored(e)),
                     ending |-> cl.stream.ending]
        IN /\ Ended(c) => OutcomeOf(cl) = RunStream(kept, cl.onStream)
           /\ (Started(c) /\ cl.pos >= 1 /\ IsIgnored(cl.stream.events[cl.pos])) =>
                 /\ cl.fullResponse =
                       Concat(ContentValues(SubSeq(cl.stream.events, 1, cl.pos)))
                 /\ cl.pos < Len(cl.stream.events) => cl.pc = "streaming"

C7_Witness ==
    \E c \in CallIds :
        /\ calls[c].pc = "returned"
        /\ calls[c].onStream
        /\ Len(calls[c].stream.events) = 3
        /\ calls[c].stream.events[1].type = ToolCallRequest
        /\ calls[c].stream.events[2].type = Content
        /\ calls[c].stream.events[3].type = Thought
        /\ calls[c].pos = 3
        /\ calls[c].chunks = <<calls[c].stream.events[2].value>>
        /\ calls[c].result = Some(calls[c].stream.events[2].value)

\* C8: the calls made on a facade hold pairwise distinct cancellation
\* handles, and a step in which one running call fails (by cancellation or
\* otherwise) leaves every other call exactly as it was: its state, its
\* text, the chunks its onStream got, its result and its error.
C8_PerCallCancellation ==
    /\ [](\A c, d \in CallIds :
            (c # d /\ Started(c) /\ Started(d)) => calls[c].signal # calls[d].signal)
    /\ [][\A c, d \in CallIds :
            (c # d /\ calls[c].pc = "streaming" /\ calls'[c].pc = "failed") =>
                calls'[d] = calls[d]]_vars

C8_Witness ==
    \E c, d \in CallIds :
        /\ c # d
        /\ calls[c].pc = "failed"
        /\ calls[c].error = Some(NewError("Request cancelled"))
        /\ calls[c].pos = 0
        /\ calls[d].pc = "returned"
        /\ calls[d].onStream
        /\ calls[d].chunks = <<"a">>
        /\ calls[d].result = Some("a")
        /\ calls[c].signal # calls[d].signal

\* C9: create() has produced a facade only if it resolved, after
\* config.initialize() succeeded and with a client that is initialized; a
\* create() whose configuration or client failed to initialize is rejected
\* with an error and has produced no facade; no facade exists while create()
\* is still waiting, and no sendMessage runs without a facade.
C9_NoFacadeOnInitFailure ==
    /\ create.agent =>
          /\ create.pc = "resolved"
          /\ create.configInitialized
          /\ create.clientInitialized
          /\ create.error = None
    /\ create.pc = "resolved" => create.agent
    /\ create.pc = "rejected" => ~create.agent /\ create.error # None
    /\ create.pc \in {"idle", "configInit", "clientInit"} =>
          ~create.agent /\ create.error = None
    /\ create.pc = "clientInit" =>
          create.configInitialized /\ ~create.clientInitialized
    /\ \A c \in CallIds : Started(c) => create.agent

C9_Witness ==
    /\ create.pc = "rejected"
    /\ create.configInitialized
    /\ ~create.clientInitialized
    /\ ~create.agent
    /\ create.error = Some(NewError("client.initialize failed"))

\* C10: a finished or error event is the last event its call consumes: the
\* call has ended with it, and the text and the chunks given to onStream are
\* those of the content events before it, so nothing the stream holds after
\* it is consumed, appended or handed to the callback.
C10_TerminalIsLast ==
    \A c \in CallIds :
        LET cl == calls[c]
        IN \A k \in 1..cl.pos :
              IsTerminal(cl.stream.events[k]) =>
                  LET before == ContentValues(SubSeq(cl.stream.events, 1, k - 1))
                  IN /\ k = cl.pos
                     /\ Ended(c)
                     /\ cl.fullResponse = Concat(before)
                     /\ cl.chunks = IF cl.onStream THEN before ELSE <<>>

C10_Witness ==
    \E c \in CallIds :
        /\ Ended(c)
        /\ calls[c].onStream
        /\ Len(calls[c].stream.events) = 3
        /\ calls[c].stream.events[1] = Event(Content, "a", None)
        /\ IsTerminal(calls[c].stream.events[2])
        /\ calls[c].stream.events[3] = Event(Content, "b", None)
        /\ calls[c].pos = 2
        /\ calls[c].chunks = <<"a">>
        /\ calls[c].fullResponse = "a"

===========================================================================
